---- MODULE Spec2Model ----
(***************************************************************************)
(* Model of batch_exec.py: parsing(file_name) reads a directive file,      *)
(* splits it into lines and, for every non-empty line, launches one        *)
(* process (_exc) or a two-stage pipe (_piped_exc), then optionally sleeps.*)
(* Strings are sequences of one-character strings, so that str.split,      *)
(* str.find and float() are computed the way Python computes them.         *)
(* The print statements have no effect on control flow and are left out.   *)
(***************************************************************************)
EXTENDS Integers, Sequences, FiniteSets, TLC

VARIABLES txt, pc, command_list, idx, wait_time, procs, trace, error

vars == <<txt, pc, command_list, idx, wait_time, procs, trace, error>>

(* ---------------------------- bounds ----------------------------------- *)
MaxLen == 5

LineChars == {"1", " ", "@", "|"}
FileChars == LineChars \cup {"\n"}
Digits == {"0", "1", "2", "3", "4", "5", "6", "7", "8", "9"}

\* The file of the module docstring (USAGE), without a trailing newline.
ExampleTxt ==
    <<"e","c","h","o"," ","\"","H","E","L","L","O","\"","\n",
      "e","c","h","o"," ","\"","H","E","L","L","O","\""," ","@","1","0","\n",
      "p","i","n","g"," ","g","o","o","g","l","e",".","c","o","m"," ","-","t"," ","2","5","6","\n",
      "e","c","h","o"," ","\"","W","O","R","L","D","\""," ","|"," ","c","a","t">>

BoundedFiles == UNION {[1..k -> FileChars] : k \in 0..MaxLen}

(* ------------------------ Python string functions ---------------------- *)
\* s.find(c): 0-based index of the first occurrence of c, -1 when absent.
Find(s, c) ==
    IF \E i \in 1..Len(s) : s[i] = c
    THEN (CHOOSE i \in 1..Len(s) : s[i] = c /\ \A j \in 1..(i-1) : s[j] # c) - 1
    ELSE -1

\* s.split(sep) for a one-character separator: every occurrence splits,
\* empty pieces are kept, and a string without sep gives [s].
RECURSIVE Split(_, _)
Split(s, sep) ==
    LET i == Find(s, sep)
    IN  IF i = -1 THEN <<s>>
        ELSE <<SubSeq(s, 1, i)>> \o Split(SubSeq(s, i + 2, Len(s)), sep)

\* s.strip() over the whitespace of the alphabet
RECURSIVE Strip(_)
Strip(s) ==
    IF s = <<>> THEN s
    ELSE IF Head(s) \in {" ", "\n"} THEN Strip(Tail(s))
    ELSE IF s[Len(s)] \in {" ", "\n"} THEN Strip(SubSeq(s, 1, Len(s) - 1))
    ELSE s

DigitVal(d) ==
    CASE d = "0" -> 0 [] d = "1" -> 1 [] d = "2" -> 2 [] d = "3" -> 3
      [] d = "4" -> 4 [] d = "5" -> 5 [] d = "6" -> 6 [] d = "7" -> 7
      [] d = "8" -> 8 [] d = "9" -> 9

RECURSIVE DecVal(_)
DecVal(s) == IF s = <<>> THEN 0
             ELSE 10 * DecVal(SubSeq(s, 1, Len(s) - 1)) + DigitVal(s[Len(s)])

\* float(s): surrounding whitespace is ignored; over the digits-only numerals
\* of this alphabet the text must be a non-empty digit string, anything else
\* raises ValueError.
FloatOk(s) == LET t == Strip(s) IN t # <<>> /\ \A i \in 1..Len(t) : t[i] \in Digits
FloatVal(s) == DecVal(Strip(s))

(* --------------------------- parsing pieces ---------------------------- *)
\* variant: the emptiness test is dropped
IsBlankNever(cmd) == FALSE

\* line 30: if cmd
IsBlank(cmd) == cmd = <<>>

\* variant: split at the first '@' only
WaitTimeSplitOnce(cmd) ==
    LET i == Find(cmd, "@")
    IN  IF i = -1 THEN <<cmd>>
        ELSE <<SubSeq(cmd, 1, i), SubSeq(cmd, i + 2, Len(cmd))>>

\* line 34: wait_time = cmd.split('@')
WaitTimeSplit(cmd) == Split(cmd, "@")

\* variant: a leading '|' counts as a pipe
IsSingleNeg(pipe_flag) == pipe_flag < 0

\* line 40: if pipe_flag < 1
IsSingle(pipe_flag) == pipe_flag < 1

\* variant: split at the first '|' only
PipeSplitOnce(cmd) ==
    LET i == Find(cmd, "|")
    IN  IF i = -1 THEN <<cmd>>
        ELSE <<SubSeq(cmd, 1, i), SubSeq(cmd, i + 2, Len(cmd))>>

\* line 43: excs = cmd.split('|')
PipeSplit(cmd) == Split(cmd, "|")

\* subprocess.Popen(argv): the launch either succeeds or raises OSError; an
\* empty program name can never be executed.
LaunchOutcomes(argv) == IF argv[1] = <<>> THEN {FALSE} ELSE BOOLEAN

Proc(line, stage, argv, stdin, stdout) ==
    [line |-> line, stage |-> stage, argv |-> argv,
     stdin |-> stdin, stdout |-> stdout, alive |-> TRUE]

Event(kind, line, a1, a2, dur) ==
    [kind |-> kind, line |-> line, a1 |-> a1, a2 |-> a2, dur |-> dur]

Fail(e) == /\ pc' = "failed"
           /\ error' = e

(* ------------------------------- Init ---------------------------------- *)
Init ==
    /\ txt \in BoundedFiles \cup {ExampleTxt}
    /\ pc = "start"
    /\ command_list = <<>>
    /\ idx = 0
    /\ wait_time = <<>>
    /\ procs = <<>>
    /\ trace = <<>>
    /\ error = "none"

(* ------------------------------ actions -------------------------------- *)
\* lines 26-28: open, read, split into lines; open may raise IOError
OpenFile ==
    /\ pc = "start"
    /\ \E ok \in BOOLEAN :
         IF ok
         THEN /\ command_list' = Split(txt, "\n")
              /\ idx' = 1
              /\ pc' = "loop"
              /\ UNCHANGED error
         ELSE /\ Fail("IOError")
              /\ UNCHANGED <<command_list, idx>>
    /\ UNCHANGED <<txt, wait_time, procs, trace>>

\* lines 29-30: an empty line is skipped
SkipBlank ==
    /\ pc = "loop"
    /\ idx <= Len(command_list)
    /\ IsBlank(command_list[idx])
    /\ idx' = idx + 1
    /\ UNCHANGED <<txt, pc, command_list, wait_time, procs, trace, error>>

\* line 29: the for loop is exhausted, parsing() returns
Finish ==
    /\ pc = "loop"
    /\ idx > Len(command_list)
    /\ pc' = "done"
    /\ UNCHANGED <<txt, command_list, idx, wait_time, procs, trace, error>>

\* variant: the single command is waited for like a piped pair
ExcWait ==
    /\ pc = "loop"
    /\ idx <= Len(command_list)
    /\ LET cmd == command_list[idx]
           exc_list == Split(cmd, " ")
       IN  /\ ~IsBlank(cmd)
           /\ IsSingle(Find(cmd, "|"))
           /\ wait_time' = WaitTimeSplit(cmd)
           /\ trace' = Append(trace, Event("exc", idx, exc_list, <<>>, 0))
           /\ \E ok \in LaunchOutcomes(exc_list) :
                IF ok
                THEN /\ procs' = Append(procs, Proc(idx, 0, exc_list, 0, "inherit"))
                     /\ pc' = "communicate"
                     /\ UNCHANGED error
                ELSE /\ Fail("OSError")
                     /\ UNCHANGED procs
    /\ UNCHANGED <<txt, command_list, idx>>

\* lines 34-41 and 53-55: single command, launched and not waited for
Exc ==
    /\ pc = "loop"
    /\ idx <= Len(command_list)
    /\ LET cmd == command_list[idx]
           exc_list == Split(cmd, " ")
       IN  /\ ~IsBlank(cmd)
           /\ IsSingle(Find(cmd, "|"))
           /\ wait_time' = WaitTimeSplit(cmd)
           /\ trace' = Append(trace, Event("exc", idx, exc_list, <<>>, 0))
           /\ \E ok \in LaunchOutcomes(exc_list) :
                IF ok
                THEN /\ procs' = Append(procs, Proc(idx, 0, exc_list, 0, "inherit"))
                     /\ pc' = "delay"
                     /\ UNCHANGED error
                ELSE /\ Fail("OSError")
                     /\ UNCHANGED procs
    /\ UNCHANGED <<txt, command_list, idx>>

\* variant: the delay text is converted before the pipe is dispatched
PipedExcEager ==
    /\ pc = "loop"
    /\ idx <= Len(command_list)
    /\ LET cmd == command_list[idx]
           excs == PipeSplit(cmd)
           exc_list1 == Split(excs[1], " ")
           exc_list2 == Split(excs[2], " ")
           p1 == Len(procs) + 1
           wt == WaitTimeSplit(cmd)
       IN  /\ ~IsBlank(cmd)
           /\ ~IsSingle(Find(cmd, "|"))
           /\ wait_time' = wt
           /\ IF Len(wt) > 1 /\ ~FloatOk(wt[2])
              THEN /\ Fail("ValueError")
                   /\ UNCHANGED <<procs, trace>>
              ELSE /\ trace' = Append(trace, Event("piped_exc", idx, exc_list1, exc_list2, 0))
                   /\ \E ok1 \in LaunchOutcomes(exc_list1), ok2 \in LaunchOutcomes(exc_list2) :
                        IF ~ok1
                        THEN /\ Fail("OSError")
                             /\ UNCHANGED procs
                        ELSE IF ~ok2
                        THEN /\ Fail("OSError")
                             /\ procs' = Append(procs, Proc(idx, 1, exc_list1, 0, "PIPE"))
                        ELSE /\ procs' = procs \o <<Proc(idx, 1, exc_list1, 0, "PIPE"),
                                                    Proc(idx, 2, exc_list2, p1, "inherit")>>
                             /\ pc' = "communicate"
                             /\ UNCHANGED error
    /\ UNCHANGED <<txt, command_list, idx>>

\* lines 34-44 and 58-62: two Popen calls, the second reading the first's
\* stdout; p2.communicate() then blocks (action Communicate)
PipedExc ==
    /\ pc = "loop"
    /\ idx <= Len(command_list)
    /\ LET cmd == command_list[idx]
           excs == PipeSplit(cmd)
           exc_list1 == Split(excs[1], " ")
           exc_list2 == Split(excs[2], " ")
           p1 == Len(procs) + 1
       IN  /\ ~IsBlank(cmd)
           /\ ~IsSingle(Find(cmd, "|"))
           /\ wait_time' = WaitTimeSplit(cmd)
           /\ trace' = Append(trace, Event("piped_exc", idx, exc_list1, exc_list2, 0))
           /\ \E ok1 \in LaunchOutcomes(exc_list1), ok2 \in LaunchOutcomes(exc_list2) :
                IF ~ok1
                THEN /\ Fail("OSError")
                     /\ UNCHANGED procs
                ELSE IF ~ok2
                THEN /\ Fail("OSError")
                     /\ procs' = Append(procs, Proc(idx, 1, exc_list1, 0, "PIPE"))
                ELSE /\ procs' = procs \o <<Proc(idx, 1, exc_list1, 0, "PIPE"),
                                            Proc(idx, 2, exc_list2, p1, "inherit")>>
                     /\ pc' = "communicate"
                     /\ UNCHANGED error
    /\ UNCHANGED <<txt, command_list, idx>>

\* variant: communicate() returns without waiting for p2
CommunicateNoWait ==
    /\ pc = "communicate"
    /\ pc' = "delay"
    /\ trace' = Append(trace, Event("communicate", idx, <<>>, <<>>, 0))
    /\ UNCHANGED <<txt, command_list, idx, wait_time, procs, error>>

\* line 63: p2.communicate() returns once p2 (the last process launched)
\* has terminated
Communicate ==
    /\ pc = "communicate"
    /\ ~procs[Len(procs)].alive
    /\ pc' = "delay"
    /\ trace' = Append(trace, Event("communicate", idx, <<>>, <<>>, 0))
    /\ UNCHANGED <<txt, command_list, idx, wait_time, procs, error>>

\* variant: the sleep does not block the loop
DelayNoBlock ==
    /\ pc = "delay"
    /\ IF Len(wait_time) > 1
       THEN IF FloatOk(wait_time[2])
            THEN /\ pc' = "loop"
                 /\ idx' = idx + 1
                 /\ trace' = Append(trace, Event("sleep", idx, <<>>, <<>>, FloatVal(wait_time[2])))
                 /\ UNCHANGED error
            ELSE /\ Fail("ValueError")
                 /\ UNCHANGED <<idx, trace>>
       ELSE /\ pc' = "loop"
            /\ idx' = idx + 1
            /\ UNCHANGED <<trace, error>>
    /\ UNCHANGED <<txt, command_list, wait_time, procs>>

\* variant: a ValueError is recorded but the loop goes on
DelaySwallow ==
    /\ pc = "delay"
    /\ IF Len(wait_time) > 1
       THEN IF FloatOk(wait_time[2])
            THEN /\ pc' = "sleeping"
                 /\ trace' = Append(trace, Event("sleep", idx, <<>>, <<>>, FloatVal(wait_time[2])))
                 /\ UNCHANGED <<idx, error>>
            ELSE /\ error' = "ValueError"
                 /\ pc' = "loop"
                 /\ idx' = idx + 1
                 /\ UNCHANGED trace
       ELSE /\ pc' = "loop"
            /\ idx' = idx + 1
            /\ UNCHANGED <<trace, error>>
    /\ UNCHANGED <<txt, command_list, wait_time, procs>>

\* lines 47-49: sleep float(wait_time[1]) seconds when the line had an '@'
Delay ==
    /\ pc = "delay"
    /\ IF Len(wait_time) > 1
       THEN IF FloatOk(wait_time[2])
            THEN /\ pc' = "sleeping"
                 /\ trace' = Append(trace, Event("sleep", idx, <<>>, <<>>, FloatVal(wait_time[2])))
                 /\ UNCHANGED <<idx, error>>
            ELSE /\ Fail("ValueError")
                 /\ UNCHANGED <<idx, trace>>
       ELSE /\ pc' = "loop"
            /\ idx' = idx + 1
            /\ UNCHANGED <<trace, error>>
    /\ UNCHANGED <<txt, command_list, wait_time, procs>>

\* line 49: time.sleep returns, the loop goes on to the next line
Wake ==
    /\ pc = "sleeping"
    /\ pc' = "loop"
    /\ idx' = idx + 1
    /\ trace' = Append(trace, Event("wake", idx, <<>>, <<>>, 0))
    /\ UNCHANGED <<txt, command_list, wait_time, procs, error>>

\* a launched child terminates on its own (environment)
ChildExit(p) ==
    /\ procs[p].alive
    /\ procs' = [procs EXCEPT ![p].alive = FALSE]
    /\ UNCHANGED <<txt, pc, command_list, idx, wait_time, trace, error>>

Runner == OpenFile \/ SkipBlank \/ Finish \/ Exc \/ PipedExc \/ Communicate \/ Delay \/ Wake

Children == \E p \in DOMAIN procs : ChildExit(p)

Next == Runner \/ Children

Spec == Init /\ [][Next]_vars

\* The interpreter keeps executing the runner (weak fairness of its steps,
\* time.sleep of a finite duration included); stage-2 processes are assumed
\* to terminate; no assumption is made about any other child.
Stage2Exit == \E p \in DOMAIN procs : procs[p].stage = 2 /\ ChildExit(p)

LiveSpec == Init /\ [][Next]_vars /\ WF_vars(Runner) /\ WF_vars(Stage2Exit)

(* ====================== properties of the runner ====================== *)
HasChar(s, c) == \E i \in 1..Len(s) : s[i] = c
FirstPos(s, c) == CHOOSE i \in 1..Len(s) : s[i] = c /\ \A j \in 1..(i-1) : s[j] # c
Before(s, c) == SubSeq(s, 1, FirstPos(s, c) - 1)
After(s, c) == SubSeq(s, FirstPos(s, c) + 1, Len(s))
UpTo(s, c) == IF HasChar(s, c) THEN Before(s, c) ELSE s
\* the text between the first and the second occurrence of c (or the end)
Segment2(s, c) == UpTo(After(s, c), c)

IsDispatch(e) == e.kind \in {"exc", "piped_exc"}
Dispatched(l) == \E k \in DOMAIN trace : trace[k].line = l /\ IsDispatch(trace[k])
ProcsOf(l) == {p \in DOMAIN procs : procs[p].line = l}
LaunchedOK(l) == ~(error = "OSError" /\ idx = l)
PipedLine(cmd) == HasChar(cmd, "|") /\ FirstPos(cmd, "|") >= 2
TwoStage(l, argv1, argv2) ==
    \E p \in DOMAIN procs :
        /\ p + 1 \in DOMAIN procs
        /\ ProcsOf(l) = {p, p + 1}
        /\ procs[p].stage = 1 /\ procs[p].argv = argv1 /\ procs[p].stdout = "PIPE"
        /\ procs[p].stdin = 0
        /\ procs[p + 1].stage = 2 /\ procs[p + 1].argv = argv2
        /\ procs[p + 1].stdin = p /\ procs[p + 1].stdout = "inherit"

\* C1 as stated: a line with '|' at index >= 1 launches two processes, stage 1
\* with the tokens before the first '|', stage 2 with the tokens of the whole
\* remainder after the first '|', stage 2 reading stage 1's output.
C1_Original ==
    \A k \in DOMAIN trace :
        LET e == trace[k]
            cmd == command_list[e.line]
        IN  (IsDispatch(e) /\ PipedLine(cmd)) =>
              /\ e.kind = "piped_exc"
              /\ e.a1 = Split(Before(cmd, "|"), " ")
              /\ e.a2 = Split(After(cmd, "|"), " ")
              /\ IF LaunchedOK(e.line)
                 THEN TwoStage(e.line, e.a1, e.a2)
                 ELSE /\ Cardinality(ProcsOf(e.line)) <= 1
                      /\ \A p \in ProcsOf(e.line) : procs[p].stage = 1

\* C1 amended: as above, but stage 2's argument vector is the tokens of the
\* text between the first and the second '|' (up to the end of the line when
\* there is only one); anything from a second '|' on is dropped.  When a
\* launch raises OSError at most stage 1 of the pair is running.
C1_Piped ==
    \A k \in DOMAIN trace :
        LET e == trace[k]
            cmd == command_list[e.line]
        IN  (IsDispatch(e) /\ PipedLine(cmd)) =>
              /\ e.kind = "piped_exc"
              /\ e.a1 = Split(Before(cmd, "|"), " ")
              /\ e.a2 = Split(Segment2(cmd, "|"), " ")
              /\ IF LaunchedOK(e.line)
                 THEN TwoStage(e.line, e.a1, e.a2)
                 ELSE /\ Cardinality(ProcsOf(e.line)) <= 1
                      /\ \A p \in ProcsOf(e.line) : procs[p].stage = 1

C1_Witness ==
    /\ pc = "delay"
    /\ PipedLine(command_list[idx])
    /\ HasChar(After(command_list[idx], "|"), "|")
    /\ Cardinality(ProcsOf(idx)) = 2

\* C2 as stated: every sleep lasts the numeric value of the whole remainder of
\* the line after the first '@'.
C2_Original ==
    \A k \in DOMAIN trace :
        LET e == trace[k]
            cmd == command_list[e.line]
        IN  e.kind = "sleep" =>
              /\ HasChar(cmd, "@")
              /\ FloatOk(After(cmd, "@"))
              /\ e.dur = FloatVal(After(cmd, "@"))

\* C2 amended: a line containing '@' whose delay step is reached sleeps for
\* the numeric value of the text between the first and the second '@' (up to
\* the end of the line when there is only one '@'), and raises ValueError
\* exactly when that text is not numeric.
C2_Delay ==
    /\ \A k \in DOMAIN trace :
          LET e == trace[k]
              cmd == command_list[e.line]
          IN  e.kind = "sleep" =>
                /\ HasChar(cmd, "@")
                /\ FloatOk(Segment2(cmd, "@"))
                /\ e.dur = FloatVal(Segment2(cmd, "@"))
    /\ error = "ValueError" =>
          /\ HasChar(command_list[idx], "@")
          /\ ~FloatOk(Segment2(command_list[idx], "@"))
    /\ \A l \in DOMAIN command_list :
          (l < idx /\ HasChar(command_list[l], "@")) =>
              \E k \in DOMAIN trace : trace[k].kind = "sleep" /\ trace[k].line = l

C2_Witness ==
    /\ pc = "sleeping"
    /\ HasChar(After(command_list[idx], "@"), "@")
    /\ trace[Len(trace)].dur = 1

\* C3: a non-empty line whose first '|' is absent or at index 0 launches one
\* process, without a pipe, whose argument vector is the whole line split on
\* every single space, the '@' suffix included.
C3_Single ==
    \A k \in DOMAIN trace :
        LET e == trace[k]
            cmd == command_list[e.line]
        IN  (IsDispatch(e) /\ ~PipedLine(cmd)) =>
              /\ e.kind = "exc"
              /\ e.a1 = Split(cmd, " ")
              /\ IF LaunchedOK(e.line)
                 THEN \E p \in DOMAIN procs :
                        /\ ProcsOf(e.line) = {p}
                        /\ procs[p].stage = 0 /\ procs[p].argv = Split(cmd, " ")
                        /\ procs[p].stdin = 0 /\ procs[p].stdout = "inherit"
                 ELSE ProcsOf(e.line) = {}

C3_Witness ==
    \E p \in DOMAIN procs :
        LET cmd == command_list[procs[p].line]
        IN  /\ procs[p].stage = 0
            /\ cmd[1] = "|"
            /\ Len(procs[p].argv) = 2
            /\ procs[p].argv[2] = <<"@", "1">>

\* C4: lines are handled in file order; a sleep happens only for a line with
\* '@', after that line's dispatch, and ends before anything else happens;
\* a line without '@' never sleeps.
C4_Order ==
    /\ \A i, j \in DOMAIN trace :
          i < j => /\ trace[i].line <= trace[j].line
                   /\ (IsDispatch(trace[i]) /\ IsDispatch(trace[j]))
                          => trace[i].line < trace[j].line
    /\ \A p, q \in DOMAIN procs : p < q => procs[p].line <= procs[q].line
    /\ \A p \in DOMAIN procs : Dispatched(procs[p].line)
    /\ \A j \in DOMAIN trace :
          trace[j].kind = "sleep" =>
              /\ HasChar(command_list[trace[j].line], "@")
              /\ \E i \in 1..(j-1) : IsDispatch(trace[i]) /\ trace[i].line = trace[j].line
              /\ j < Len(trace) => /\ trace[j+1].kind = "wake"
                                   /\ trace[j+1].line = trace[j].line
              /\ j = Len(trace) => pc = "sleeping"
    /\ pc = "sleeping" => (trace # <<>> /\ trace[Len(trace)].kind = "sleep")

C4_Witness ==
    \E j \in DOMAIN trace :
        /\ trace[j].kind = "sleep"
        /\ j + 2 \in DOMAIN trace
        /\ IsDispatch(trace[j+2])
        /\ Cardinality(ProcsOf(trace[j+2].line)) = 1

\* C5: while a stage-2 process is running the runner is blocked on it (no
\* delay, no later launch); the runner is never blocked on anything else, in
\* particular not on a child of a non-piped line.
C5_Waits ==
    /\ \A p \in DOMAIN procs :
          (procs[p].stage = 2 /\ procs[p].alive) =>
              /\ pc = "communicate"
              /\ idx = procs[p].line
              /\ p = Len(procs)
    /\ (pc \notin {"done", "failed"} /\ ~ENABLED Runner) =>
          /\ pc = "communicate"
          /\ procs[Len(procs)].stage = 2
          /\ procs[Len(procs)].alive

C5_Witness ==
    /\ pc = "done"
    /\ \E p, q \in DOMAIN procs :
          /\ procs[p].stage = 0 /\ procs[p].alive
          /\ procs[q].stage = 2
          /\ procs[p].line < procs[q].line

\* C6: once an error is raised nothing more is dispatched, launched or slept;
\* a failed open leaves no launch at all; the abort leaves the processes
\* already launched as they are.
C6_Abort ==
    [][ /\ error' = "IOError" => (procs' = <<>> /\ trace' = <<>>)
        /\ error # "none" =>
              /\ error' = error /\ pc' = "failed" /\ pc = "failed"
              /\ trace' = trace /\ Len(procs') = Len(procs)
        /\ (error = "none" /\ error' # "none") =>
              /\ \A p \in DOMAIN procs : procs'[p] = procs[p]
              /\ \A p \in DOMAIN procs' : procs'[p].line <= idx'
              /\ \A k \in DOMAIN trace' : trace'[k].kind \notin {"sleep", "wake"}
                                             => trace'[k].line <= idx'
      ]_vars

C6_Witness ==
    /\ error = "ValueError"
    /\ \E l \in DOMAIN command_list : l > idx /\ command_list[l] # <<>>
    /\ \E p \in DOMAIN procs : procs[p].alive

\* C7: the runner eventually finishes (or aborts on a failing line) as long
\* as stage-2 processes terminate, whatever the other children do.
C7_Finishes == <>(pc \in {"done", "failed"})

C7_Witness ==
    /\ pc = "done"
    /\ \E p \in DOMAIN procs : procs[p].stage = 0
    /\ \E p \in DOMAIN procs : procs[p].stage = 2
    /\ \A p \in DOMAIN procs : procs[p].stage # 2 => procs[p].alive

\* C8 as stated: on the docstring's example file the runner's events are
\* exc [echo,"HELLO"]; exc [echo,"HELLO",@10]; sleep 10; exc [ping,
\* google.com,-t,256]; piped_exc [echo,"WORLD"] | [cat]; wait for stage 2.
ExampleEvents ==
    <<Event("exc", 1, <<<<"e","c","h","o">>, <<"\"","H","E","L","L","O","\"">>>>, <<>>, 0),
      Event("exc", 2, <<<<"e","c","h","o">>, <<"\"","H","E","L","L","O","\"">>,
                        <<"@","1","0">>>>, <<>>, 0),
      Event("sleep", 2, <<>>, <<>>, 10),
      Event("wake", 2, <<>>, <<>>, 0),
      Event("exc", 3, <<<<"p","i","n","g">>, <<"g","o","o","g","l","e",".","c","o","m">>,
                        <<"-","t">>, <<"2","5","6">>>>, <<>>, 0),
      Event("piped_exc", 4, <<<<"e","c","h","o">>, <<"\"","W","O","R","L","D","\"">>>>,
                            <<<<"c","a","t">>>>, 0),
      Event("communicate", 4, <<>>, <<>>, 0)>>

C8_Example ==
    txt = ExampleTxt =>
        \A k \in DOMAIN trace : k <= Len(ExampleEvents) /\ trace[k] = ExampleEvents[k]

\* C9: blank lines are skipped: the dispatches are exactly the non-empty
\* lines processed so far, and a file of blank lines only launches nothing
\* and cannot fail once it is open.
C9_Blank ==
    /\ Cardinality({k \in DOMAIN trace : IsDispatch(trace[k])})
         = Cardinality({l \in DOMAIN command_list :
                           /\ command_list[l] # <<>>
                           /\ l < idx \/ (l = idx /\ pc # "loop")})
    /\ \A k \in DOMAIN trace : command_list[trace[k].line] # <<>>
    /\ \A p \in DOMAIN procs : command_list[procs[p].line] # <<>>
    /\ (\A l \in DOMAIN command_list : command_list[l] = <<>>) =>
          /\ procs = <<>> /\ trace = <<>>
          /\ error \in {"none", "IOError"}
          /\ pc \in {"start", "loop", "done", "failed"}

C9_Witness ==
    /\ pc = "done"
    /\ \E l, m, n \in DOMAIN command_list :
          /\ l < m /\ m < n
          /\ command_list[l] # <<>> /\ command_list[m] = <<>> /\ command_list[n] # <<>>
    /\ Len(procs) = 2

\* C10: a ValueError from the delay text is raised only after the line's own
\* command(s) were launched and, for a piped line, stage 2 was awaited.
C10_LateConversion ==
    error = "ValueError" =>
        LET cmd == command_list[idx]
        IN  /\ cmd # <<>>
            /\ Dispatched(idx)
            /\ IF PipedLine(cmd)
               THEN /\ \E p \in ProcsOf(idx) : procs[p].stage = 1
                    /\ \E p \in ProcsOf(idx) : procs[p].stage = 2 /\ ~procs[p].alive
                    /\ Cardinality(ProcsOf(idx)) = 2
                    /\ trace[Len(trace)] = Event("communicate", idx, <<>>, <<>>, 0)
               ELSE /\ Cardinality(ProcsOf(idx)) = 1
                    /\ \A p \in ProcsOf(idx) : procs[p].stage = 0
                    /\ trace[Len(trace)].kind = "exc" /\ trace[Len(trace)].line = idx

C10_Witness ==
    /\ error = "ValueError"
    /\ PipedLine(command_list[idx])
    /\ FirstPos(command_list[idx], "@") < FirstPos(command_list[idx], "|")

====
